---------------------------- MODULE Spec2Model ----------------------------
(***************************************************************************)
(* Model of the SensorMonitor React component (src/src/SensorMonitor.jsx)  *)
(* and of the App wrapper around it (src/unnamed/part_000).                *)
(*                                                                         *)
(* The source file holds two variants of the component; `variant` selects  *)
(* which one a behaviour follows (1: lines 4-356, 2: lines 361-690).       *)
(*                                                                         *)
(* Numbers are fixed point integers:                                       *)
(*   accelerations  cm/s^2        G-forces   milli-g                       *)
(*   headings       degrees       altitude   metres                        *)
(*   speed          1/36 m/s, so that speed * 3.6 is speed / 10 km/h       *)
(*   pressure       1/100 hPa     time       milliseconds                  *)
(* A JavaScript value that may be null or undefined is a sequence of       *)
(* length 0 (absent) or 1 (present).                                       *)
(*                                                                         *)
(* The purely presentational state of the component (time, isMetric,       *)
(* isDark, showInfo) is not part of the model.                             *)
(***************************************************************************)
EXTENDS Integers, Sequences, FiniteSets, TLC

VARIABLES
    variant,            \* which of the two variants of the component runs
    platform,           \* "gated": DeviceOrientationEvent.requestPermission exists
                        \* "open" : DeviceOrientationEvent exists, no requestPermission
                        \* "none" : DeviceOrientationEvent is undefined
    geolocation,        \* 'geolocation' in navigator
    sensors,            \* the sensors state (useState)
    permissionGranted,  \* the permissionGranted state (useState)
    decisions,          \* history: the permission decisions taken so far
    pendingRequests,    \* requestPermission() promises not yet settled
    mounted,            \* the component is mounted
    effectDeps,         \* permissionGranted as seen by the effect that last ran
    listenersAdded,     \* the effect that last ran called addEventListener
    orientationListeners, \* handlers registered for 'deviceorientation'
    motionListeners,    \* handlers registered for 'devicemotion'
    timerActive,        \* the setInterval timer of the effect is running
    watchId,            \* watchId of the effect that last ran
    activeWatches,      \* position watches active in the platform
    now,                \* wall clock
    lastCommit,         \* history: time of the last mutation of each channel
    lastEvent,          \* history: <<kind, payload>> of the last step
    hasError,           \* state.hasError of the ErrorBoundary around the component
    compassArg,         \* argument of a call of getCompassDirection
    compassLabel,       \* result of that call, "unset" before it
    pressureAlt,        \* arguments of two calls of calculatePressureFromAlt
    pressureOut         \* results of these calls, absent before them

vars == <<variant, platform, geolocation, sensors, permissionGranted,
          decisions, pendingRequests, mounted, effectDeps,
          listenersAdded, orientationListeners, motionListeners, timerActive,
          watchId, activeWatches, now, lastCommit, lastEvent, hasError,
          compassArg, compassLabel, pressureAlt, pressureOut>>

-----------------------------------------------------------------------------
(* Bounds of the model *)

MaxWatchId == 1
MaxPending == 1
MaxTicks == 4
MaxProbe == 765
MaxAlt == 10000
MaxGap == 3
MaxHeading == 359

-----------------------------------------------------------------------------
(* JavaScript values *)

None == <<>>
Some(v) == <<v>>

\* JavaScript truthiness of a number that may be null: null and 0 are falsy
Truthy(o) == o # None /\ o[1] # 0

\* o || 0
OrZero(o) == IF Truthy(o) THEN o[1] ELSE 0

\* a % n of JavaScript: the result has the sign of the dividend
JsRem(a, n) == IF a >= 0 THEN a % n ELSE -((-a) % n)

Max(a, b) == IF a >= b THEN a ELSE b

\* floor of the square root, by bisection
RECURSIVE SqrtBetween(_, _, _)
SqrtBetween(n, lo, hi) ==
    IF lo >= hi THEN lo
    ELSE LET mid == (lo + hi + 1) \div 2
         IN  IF mid * mid <= n THEN SqrtBetween(n, mid, hi)
             ELSE SqrtBetween(n, lo, mid - 1)

ISqrt(n) == SqrtBetween(n, 0, 46340)

Channels == {"gps", "motion", "orientation"}

-----------------------------------------------------------------------------
(* Pure functions of the component *)

\* Math.round(n / d) for d > 0: halves round up
RoundDiv(n, d) == (2 * n + d) \div (2 * d)

dirs == <<"N", "NE", "E", "SE", "S", "SW", "W", "NW">>

\* dirs[i] of JavaScript: an index outside the array gives undefined
ArrayAt(arr, i) == IF i >= 0 /\ i < Len(arr) THEN arr[i + 1] ELSE "undefined"

\* getCompassDirection indexing dirs without % 8
getCompassDirection_NoWrap(deg) == ArrayAt(dirs, RoundDiv(deg, 45))

getCompassDirection(deg) == ArrayAt(dirs, JsRem(RoundDiv(deg, 45), 8))

\* Math.sqrt(x*x + y*y + z*z) / 9.81, in milli-g
TotalG(x, y, z) == (ISqrt(x * x + y * y + z * z) * 1000) \div 981

\* a * b of two numbers scaled by 10^6, within 32-bit integers
MulMicro(a, b) ==
    LET x == IF a < 0 THEN -a ELSE a
        y == IF b < 0 THEN -b ELSE b
        xh == x \div 1000
        xl == x % 1000
        yh == y \div 1000
        yl == y % 1000
        p == xh * yh + (xh * yl + xl * yh) \div 1000 + (xl * yl) \div 1000000
    IN  IF (a < 0) = (b < 0) THEN p ELSE -p

\* 1 + 2.25577e-5 * h in place of 1 - 2.25577e-5 * h
IsaU_Rising(h) == -(h * 22 + (h * 5577) \div 10000)

\* 2.25577e-5 * h, scaled by 10^6
IsaU(h) == h * 22 + (h * 5577) \div 10000

\* (5.25588 - k + 1) / k, scaled by 10^6
IsaCoef(k) == ((6 - k) * 1000000 + 255880) \div k

\* (1 - u) ^ 5.25588 by the binomial series, scaled by 10^6
RECURSIVE IsaSeries(_, _, _, _)
IsaSeries(k, term, u, acc) ==
    IF k > 10 THEN acc
    ELSE LET t == -MulMicro(MulMicro(term, u), IsaCoef(k))
         IN  IsaSeries(k + 1, t, u, acc + t)

\* Math.pow(1 - 2.25577e-5 * altMeters, 5.25588), scaled by 10^6
IsaFactor(h) == IsaSeries(1, 1000000, IsaU(h), 1000000)

\* 1013.25 hPa, in 1/100 hPa
StandardPressure == 101325

calculatePressureFromAlt(altMeters) ==
    IF altMeters = 0 THEN StandardPressure
    ELSE MulMicro(StandardPressure, IsaFactor(altMeters))

\* The heading shown by the COMPASS card: Math.round(sensors.magnetometer.heading)
DisplayedHeading(s) == RoundDiv(s.magnetometer.heading, 1)

\* The COMPASS card shows the magnetometer heading only
DisplayedHeadingSource(s) == "magnetic"

\* sensors.gps.speed * 3.6, in 1/10 km/h
SpeedKmh10(s) == OrZero(s.gps.speed)

-----------------------------------------------------------------------------
(* The state updaters passed to setSensors *)

InitialSensors(v) ==
    IF v = 1
    THEN [gps |-> [latitude |-> None, longitude |-> None, altitude |-> None,
                   accuracy |-> None, speed |-> None, heading |-> None],
          accelerometer |-> [x |-> 0, y |-> 0, z |-> 0, totalG |-> 0, peakG |-> 0],
          magnetometer |-> [heading |-> 0, accuracy |-> 0],
          available |-> [gps |-> FALSE, motion |-> FALSE, orientation |-> FALSE],
          barometer |-> None,
          device |-> None]
    ELSE [gps |-> [latitude |-> None, longitude |-> None, altitude |-> Some(0),
                   accuracy |-> None, speed |-> Some(0), heading |-> None],
          accelerometer |-> [x |-> 0, y |-> 0, z |-> 0, totalG |-> 0, peakG |-> 0],
          magnetometer |-> [heading |-> 0, accuracy |-> 0],
          available |-> [gps |-> FALSE, motion |-> FALSE, orientation |-> FALSE],
          barometer |-> Some([pressureHPa |-> StandardPressure, verticalSpeed |-> 0]),
          device |-> Some([cpuTemp |-> 40])]

\* resetSensors returning the motion channel to its initial state
resetSensors_ClearsMotionFlag(prev) ==
    [prev EXCEPT !.accelerometer.peakG = 0, !.available.motion = FALSE]

\* resetSensors replacing the accelerometer subtree instead of spreading it
resetSensors_ClearsAccelerometer(prev) ==
    [prev EXCEPT !.accelerometer = [x |-> 0, y |-> 0, z |-> 0, totalG |-> 0,
                                    peakG |-> 0]]

resetSensors(prev) == [prev EXCEPT !.accelerometer.peakG = 0]

OrientationHeading(e) ==
    IF Truthy(e.webkitCompassHeading) THEN e.webkitCompassHeading[1]
    ELSE IF Truthy(e.alpha) THEN 360 - e.alpha[1]
    ELSE 0

handleOrientation(prev, e) ==
    [prev EXCEPT !.magnetometer = [heading |-> OrientationHeading(e),
                                   accuracy |-> OrZero(e.webkitCompassAccuracy)],
                 !.available.orientation = TRUE]

\* handleMotion storing the current sample as the peak
handleMotion_PeakIsCurrent(prev, e) ==
    LET acc == e.accelerationIncludingGravity IN
    IF acc = None THEN prev
    ELSE LET x == OrZero(acc[1].x)
             y == OrZero(acc[1].y)
             z == OrZero(acc[1].z)
             total == TotalG(x, y, z)
         IN  [prev EXCEPT !.accelerometer =
                              [x |-> x, y |-> y, z |-> z, totalG |-> total,
                               peakG |-> total],
                          !.available.motion = TRUE]

\* handleMotion without its early return: an absent vector read as zeros
handleMotion_NoGuard(prev, e) ==
    LET acc == e.accelerationIncludingGravity
        x == IF acc = None THEN 0 ELSE OrZero(acc[1].x)
        y == IF acc = None THEN 0 ELSE OrZero(acc[1].y)
        z == IF acc = None THEN 0 ELSE OrZero(acc[1].z)
        total == TotalG(x, y, z)
    IN  [prev EXCEPT !.accelerometer =
                         [x |-> x, y |-> y, z |-> z, totalG |-> total,
                          peakG |-> Max(prev.accelerometer.peakG, total)],
                     !.available.motion = TRUE]

\* handleMotion carrying prev.accelerometer.peakG over unchanged
handleMotion_PeakKept(prev, e) ==
    LET acc == e.accelerationIncludingGravity IN
    IF acc = None THEN prev
    ELSE LET x == OrZero(acc[1].x)
             y == OrZero(acc[1].y)
             z == OrZero(acc[1].z)
         IN  [prev EXCEPT !.accelerometer =
                              [x |-> x, y |-> y, z |-> z,
                               totalG |-> TotalG(x, y, z),
                               peakG |-> prev.accelerometer.peakG],
                          !.available.motion = TRUE]

\* handleMotion spreading a snapshot captured when the effect ran, in which the
\* orientation channel had not reported yet, in place of prev
handleMotion_StaleSnapshot(prev, e) ==
    LET acc == e.accelerationIncludingGravity IN
    IF acc = None THEN prev
    ELSE LET x == OrZero(acc[1].x)
             y == OrZero(acc[1].y)
             z == OrZero(acc[1].z)
             total == TotalG(x, y, z)
         IN  [prev EXCEPT !.accelerometer =
                              [x |-> x, y |-> y, z |-> z, totalG |-> total,
                               peakG |-> Max(prev.accelerometer.peakG, total)],
                          !.magnetometer = [heading |-> 0, accuracy |-> 0],
                          !.available.orientation = FALSE,
                          !.available.motion = TRUE]

handleMotion(prev, e) ==
    LET acc == e.accelerationIncludingGravity IN
    IF acc = None THEN prev
    ELSE LET x == OrZero(acc[1].x)
             y == OrZero(acc[1].y)
             z == OrZero(acc[1].z)
             total == TotalG(x, y, z)
         IN  [prev EXCEPT !.accelerometer =
                              [x |-> x, y |-> y, z |-> z, totalG |-> total,
                               peakG |-> Max(prev.accelerometer.peakG, total)],
                          !.available.motion = TRUE]

\* handleGPS storing the fix without recomputing the pressure
handleGPS_KeepsPressure(v, prev, coords) ==
    [prev EXCEPT !.gps = [latitude |-> coords.latitude,
                          longitude |-> coords.longitude,
                          altitude |-> IF v = 1 THEN coords.altitude
                                       ELSE Some(OrZero(coords.altitude)),
                          accuracy |-> coords.accuracy,
                          speed |-> Some(OrZero(coords.speed)),
                          heading |-> coords.heading],
                 !.available.gps = TRUE]

handleGPS(v, prev, coords) ==
    IF v = 1
    THEN [prev EXCEPT !.gps = [latitude |-> coords.latitude,
                               longitude |-> coords.longitude,
                               altitude |-> coords.altitude,
                               accuracy |-> coords.accuracy,
                               speed |-> Some(OrZero(coords.speed)),
                               heading |-> coords.heading],
                      !.available.gps = TRUE]
    ELSE LET alt == OrZero(coords.altitude)
             press == calculatePressureFromAlt(alt)
         IN  [prev EXCEPT !.gps = [latitude |-> coords.latitude,
                                   longitude |-> coords.longitude,
                                   altitude |-> Some(alt),
                                   accuracy |-> coords.accuracy,
                                   speed |-> Some(OrZero(coords.speed)),
                                   heading |-> coords.heading],
                          !.barometer = Some([prev.barometer[1] EXCEPT
                                                  !.pressureHPa = press]),
                          !.available.gps = TRUE]

\* handleGPSError marking the channel available
handleGPSError_MarksAvailable(prev) == [prev EXCEPT !.available.gps = TRUE]

\* handleGPSError forgetting the last fix
handleGPSError_ClearsFix(prev) == [prev EXCEPT !.available.gps = FALSE]

\* handleGPSError / console.warn: the error is logged, setSensors is not called
handleGPSError(prev) == prev

-----------------------------------------------------------------------------
(* Inputs: the events the platform delivers *)

Vec(x, y, z) == Some([x |-> x, y |-> y, z |-> z])

MotionEvents ==
    { [accelerationIncludingGravity |-> None],
      [accelerationIncludingGravity |-> Vec(Some(0), Some(0), Some(981))],
      [accelerationIncludingGravity |-> Vec(None, Some(-1079), Some(0))],
      [accelerationIncludingGravity |-> Vec(Some(3139), Some(0), Some(0))] }

OrientationEvents ==
    { [webkitCompassHeading |-> Some(45), alpha |-> None,
       webkitCompassAccuracy |-> Some(10)],
      [webkitCompassHeading |-> None, alpha |-> Some(90),
       webkitCompassAccuracy |-> None],
      [webkitCompassHeading |-> Some(0), alpha |-> Some(180),
       webkitCompassAccuracy |-> Some(10)],
      [webkitCompassHeading |-> None, alpha |-> None,
       webkitCompassAccuracy |-> None] }

Coords(alt, speed, heading) ==
    [latitude |-> Some(19), longitude |-> Some(-99), altitude |-> alt,
     accuracy |-> Some(5), speed |-> speed, heading |-> heading]

GpsFixes ==
    { Coords(Some(100), Some(50), Some(90)),
      Coords(Some(110), Some(0), Some(90)),
      Coords(None, None, None) }

WatchIds == 0 .. MaxWatchId

Platforms == {"gated", "open", "none"}

PermissionOutcomes == {"granted", "denied", "error"}

\* One step of the wall clock, in milliseconds
TickMs == 250

-----------------------------------------------------------------------------
(* The effect of useEffect(..., [permissionGranted]) and its cleanup *)

\* The listeners subscribed whenever DeviceOrientationEvent exists or not
ShouldSubscribe_Ungated(granted, plat) == TRUE

\* if (permissionGranted || typeof DeviceOrientationEvent === 'undefined')
ShouldSubscribe(granted, plat) == granted \/ plat = "none"

\* A position watch started only where the listeners are subscribed
ShouldWatch_Gated(granted, plat, geo) == geo /\ ShouldSubscribe(granted, plat)

\* if ('geolocation' in navigator): the condition of watchPosition
ShouldWatch(granted, plat, geo) == geo

\* The guard of clearWatch in the cleanup:
\* variant 1: if (watchId !== null), variant 2: if (watchId)
ShouldClearWatch(v, wid) == IF v = 1 THEN wid # None ELSE Truthy(wid)

\* removeEventListener removes the handler of this effect if it was added
ListenersAfterCleanup(n, added) == IF added THEN n - 1 ELSE n

WatchesAfterCleanup(v, wid, active) ==
    IF ShouldClearWatch(v, wid) THEN active \ {wid[1]} ELSE active

\* setSensors of an unmounted component changes nothing
SetSensors(next) == IF mounted THEN next ELSE sensors

Commit(ch) == IF mounted THEN [lastCommit EXCEPT ![ch] = Some(now)] ELSE lastCommit

Probes == /\ compassArg = 0
          /\ compassLabel = "unset"
          /\ pressureAlt = <<0, 0>>
          /\ pressureOut = None

\* The component after its first render, before its effect has run
InitComponent ==
    /\ variant \in {1, 2}
    /\ platform \in Platforms
    /\ geolocation \in BOOLEAN
    /\ sensors = InitialSensors(variant)
    /\ permissionGranted = FALSE
    /\ decisions = {}
    /\ pendingRequests = 0
    /\ mounted = TRUE
    /\ effectDeps = None
    /\ listenersAdded = FALSE
    /\ orientationListeners = 0
    /\ motionListeners = 0
    /\ timerActive = FALSE
    /\ watchId = None
    /\ activeWatches = {}
    /\ now = 0
    /\ lastCommit = [ch \in Channels |-> None]
    /\ lastEvent = <<"init", None>>
    /\ hasError = FALSE

Init ==
    /\ InitComponent
    /\ Probes

env == <<variant, platform, geolocation>>
boundary == <<hasError>>
probes == <<compassArg, compassLabel, pressureAlt, pressureOut>>
subscriptions == <<listenersAdded, orientationListeners, motionListeners,
                   timerActive, watchId, activeWatches>>
permission == <<permissionGranted, decisions, pendingRequests>>

\* The effect runs after the first render and after every render in which
\* permissionGranted has changed; the cleanup of the previous run comes first.
RunEffect ==
    /\ mounted
    /\ effectDeps # Some(permissionGranted)
    /\ LET subscribe == ShouldSubscribe(permissionGranted, platform)
           ran == effectDeps # None
           ol == IF ran THEN ListenersAfterCleanup(orientationListeners, listenersAdded)
                 ELSE orientationListeners
           ml == IF ran THEN ListenersAfterCleanup(motionListeners, listenersAdded)
                 ELSE motionListeners
           aw == IF ran THEN WatchesAfterCleanup(variant, watchId, activeWatches)
                 ELSE activeWatches
       IN  /\ timerActive' = TRUE
           /\ listenersAdded' = subscribe
           /\ orientationListeners' = IF subscribe THEN ol + 1 ELSE ol
           /\ motionListeners' = IF subscribe THEN ml + 1 ELSE ml
           /\ IF ShouldWatch(permissionGranted, platform, geolocation)
              THEN \E id \in WatchIds \ aw :
                       /\ watchId' = Some(id)
                       /\ activeWatches' = aw \cup {id}
              ELSE /\ watchId' = None
                   /\ activeWatches' = aw
    /\ effectDeps' = Some(permissionGranted)
    /\ lastEvent' = <<"effect", None>>
    /\ UNCHANGED <<env, boundary, sensors, permission, mounted, now, lastCommit, probes>>

\* The function returned by the effect, run when the component unmounts
Cleanup ==
    IF effectDeps # None
    THEN /\ timerActive' = FALSE
         /\ orientationListeners' =
                ListenersAfterCleanup(orientationListeners, listenersAdded)
         /\ motionListeners' =
                ListenersAfterCleanup(motionListeners, listenersAdded)
         /\ activeWatches' = WatchesAfterCleanup(variant, watchId, activeWatches)
    ELSE UNCHANGED <<timerActive, orientationListeners, motionListeners,
                     activeWatches>>

\* The component is unmounted: the cleanup of the effect runs
Unmount ==
    /\ mounted
    /\ mounted' = FALSE
    /\ Cleanup
    /\ lastEvent' = <<"unmount", None>>
    /\ UNCHANGED <<env, boundary, sensors, permission, effectDeps, listenersAdded, watchId,
                   now, lastCommit, probes>>

\* The START button (shown while permissionGranted is false): requestPermissions
\* up to its await, or all of it where there is nothing to await
RequestPermissions ==
    /\ mounted
    /\ ~permissionGranted
    /\ IF platform = "gated"
       THEN /\ pendingRequests < MaxPending
            /\ pendingRequests' = pendingRequests + 1
            /\ UNCHANGED <<permissionGranted, decisions>>
       ELSE /\ permissionGranted' = TRUE
            /\ decisions' = decisions \cup {"granted"}
            /\ UNCHANGED pendingRequests
    /\ lastEvent' = <<"requestPermissions", None>>
    /\ UNCHANGED <<env, boundary, sensors, mounted, effectDeps, subscriptions, now,
                   lastCommit, probes>>

\* requestPermissions after its await: the promise is settled
PermissionSettled ==
    /\ pendingRequests > 0
    /\ \E outcome \in PermissionOutcomes :
          /\ permissionGranted' =
                 IF outcome = "granted" /\ mounted THEN TRUE ELSE permissionGranted
          /\ decisions' = decisions \cup {outcome}
          /\ lastEvent' = <<"permissionSettled", outcome>>
    /\ pendingRequests' = pendingRequests - 1
    /\ UNCHANGED <<env, boundary, sensors, mounted, effectDeps, subscriptions, now,
                   lastCommit, probes>>

\* The Reset Peaks button
ResetPeaks ==
    /\ mounted
    /\ sensors' = resetSensors(sensors)
    /\ lastEvent' = <<"reset", None>>
    /\ UNCHANGED <<env, boundary, permission, mounted, effectDeps, subscriptions, now,
                   lastCommit, probes>>

DeviceOrientation ==
    /\ orientationListeners > 0
    /\ \E e \in OrientationEvents :
          /\ sensors' = SetSensors(handleOrientation(sensors, e))
          /\ lastEvent' = <<"orientation", e>>
    /\ lastCommit' = Commit("orientation")
    /\ UNCHANGED <<env, boundary, permission, mounted, effectDeps, subscriptions, now, probes>>

DeviceMotion ==
    /\ motionListeners > 0
    /\ \E e \in MotionEvents :
          /\ sensors' = SetSensors(handleMotion(sensors, e))
          /\ lastEvent' = <<"motion", e>>
          /\ lastCommit' = IF e.accelerationIncludingGravity = None
                           THEN lastCommit ELSE Commit("motion")
    /\ UNCHANGED <<env, boundary, permission, mounted, effectDeps, subscriptions, now, probes>>

PositionFix ==
    /\ activeWatches # {}
    /\ \E c \in GpsFixes :
          /\ sensors' = SetSensors(handleGPS(variant, sensors, c))
          /\ lastEvent' = <<"gps", c>>
    /\ lastCommit' = Commit("gps")
    /\ UNCHANGED <<env, boundary, permission, mounted, effectDeps, subscriptions, now, probes>>

PositionError ==
    /\ activeWatches # {}
    /\ sensors' = SetSensors(handleGPSError(sensors))
    /\ lastEvent' = <<"gpsError", None>>
    /\ UNCHANGED <<env, boundary, permission, mounted, effectDeps, subscriptions, now,
                   lastCommit, probes>>

Tick ==
    /\ now < MaxTicks * TickMs
    /\ now' = now + TickMs
    /\ lastEvent' = <<"tick", None>>
    /\ UNCHANGED <<env, boundary, sensors, permission, mounted, effectDeps, subscriptions,
                   lastCommit, probes>>

Next ==
    \/ RunEffect
    \/ Unmount
    \/ RequestPermissions
    \/ PermissionSettled
    \/ ResetPeaks
    \/ DeviceOrientation
    \/ DeviceMotion
    \/ PositionFix
    \/ PositionError

Spec == Init /\ [][Next]_vars

\* An exception thrown while SensorMonitor renders: the ErrorBoundary of App
\* takes it (getDerivedStateFromError), renders its fallback in place of its
\* children, and React unmounts SensorMonitor, which runs the effect's cleanup
RenderError ==
    /\ mounted
    /\ ~hasError
    /\ hasError' = TRUE
    /\ mounted' = FALSE
    /\ Cleanup
    /\ lastEvent' = <<"renderError", None>>
    /\ UNCHANGED <<env, sensors, permission, effectDeps, listenersAdded, watchId,
                   now, lastCommit, probes>>

NextFault ==
    \/ Next
    \/ RenderError

\* The component with failures of its presentation code
SpecFault == Init /\ [][NextFault]_vars

\* The sensor events against the wall clock, on a platform that needs no
\* permission, in the variant with derived metrics
InitTimed ==
    /\ Init
    /\ variant = 2
    /\ platform = "none"
    /\ geolocation

NextTimed ==
    \/ Tick
    \/ RunEffect
    \/ DeviceOrientation
    \/ DeviceMotion
    \/ PositionFix

SpecTimed == InitTimed /\ [][NextTimed]_vars

\* Calls of getCompassDirection on headings of both signs
InitCompass ==
    /\ InitComponent
    /\ variant = 1
    /\ platform = "none"
    /\ geolocation
    /\ compassArg \in -MaxProbe .. MaxProbe
    /\ compassLabel = "unset"
    /\ pressureAlt = <<0, 0>>
    /\ pressureOut = None

CallCompass ==
    /\ compassLabel = "unset"
    /\ compassLabel' = getCompassDirection(compassArg)
    /\ lastEvent' = <<"compass", None>>
    /\ UNCHANGED <<env, boundary, sensors, permission, mounted, effectDeps,
                   subscriptions, now, lastCommit, compassArg,
                   pressureAlt, pressureOut>>

NextCompass == CallCompass

SpecCompass == InitCompass /\ [][NextCompass]_vars

\* ---- handleOrientation over every heading the platform may deliver ----

\* A native compass heading or a rotation angle in [0, 360), absent or present
Headings == {None} \cup {Some(h) : h \in 0 .. MaxHeading}

\* deviceorientation events with a native heading, a rotation angle, both or none
HeadingEvents ==
    { [webkitCompassHeading |-> n, alpha |-> a, webkitCompassAccuracy |-> Some(10)] :
          <<n, a>> \in {p \in Headings \X Headings :
                            p[1] = None \/ p[2] = None \/ p[1] = p[2]} }

InitHeading ==
    /\ InitComponent
    /\ platform = "none"
    /\ geolocation
    /\ Probes

DeviceHeading ==
    /\ orientationListeners > 0
    /\ \E e \in HeadingEvents :
          /\ sensors' = SetSensors(handleOrientation(sensors, e))
          /\ lastEvent' = <<"orientation", e>>
    /\ lastCommit' = Commit("orientation")
    /\ UNCHANGED <<env, boundary, permission, mounted, effectDeps, subscriptions, now, probes>>

NextHeading == RunEffect \/ DeviceHeading

SpecHeading == InitHeading /\ [][NextHeading]_vars

\* ---- calculatePressureFromAlt on its own, at two altitudes ----

InitPressure ==
    /\ InitComponent
    /\ variant = 2
    /\ platform = "none"
    /\ geolocation
    /\ compassArg = 0
    /\ compassLabel = "unset"
    /\ \E lo \in 0 .. MaxAlt - 1 :
           \E hi \in lo + 1 .. (IF lo + MaxGap > MaxAlt THEN MaxAlt ELSE lo + MaxGap) :
               pressureAlt = <<lo, hi>>
    /\ pressureOut = None

CallPressure ==
    /\ pressureOut = None
    /\ pressureOut' = Some(<<calculatePressureFromAlt(pressureAlt[1]),
                             calculatePressureFromAlt(pressureAlt[2])>>)
    /\ lastEvent' = <<"pressure", None>>
    /\ UNCHANGED <<env, boundary, sensors, permission, mounted, effectDeps,
                   subscriptions, now, lastCommit, compassArg, compassLabel,
                   pressureAlt>>

NextPressure == CallPressure

SpecPressure == InitPressure /\ [][NextPressure]_vars

-----------------------------------------------------------------------------
(* The claims *)

AllAvailable == \A ch \in Channels : sensors.available[ch]

LastKind == lastEvent[1]

\* G(sample) of a motion event that carries a gravity-inclusive vector
SampleG(e) ==
    LET acc == e.accelerationIncludingGravity[1]
    IN  TotalG(OrZero(acc.x), OrZero(acc.y), OrZero(acc.z))

\* The displayed primary values of a channel
Displayed(s, ch) ==
    CASE ch = "gps" -> s.gps
      [] ch = "motion" -> <<s.accelerometer.x, s.accelerometer.y,
                            s.accelerometer.z, s.accelerometer.totalG>>
      [] ch = "orientation" -> s.magnetometer

\* Throttle intervals of the specification (section 4.2), in milliseconds
ThrottleInterval == 300
ClimbInterval == 1000

\* C1: once the availability flag of a channel is true it stays true, whatever
\* step follows (sensor event, GPS error, reset, permission request, effect)
C1_AvailabilityMonotonic ==
    [][\A ch \in Channels : sensors.available[ch] => sensors'.available[ch]]_vars

\* C1 witness: all three channels are live on a permission-gated platform after
\* the effect re-subscribed, and a reset has just been applied
C1_Witness ==
    /\ AllAvailable
    /\ platform = "gated"
    /\ effectDeps = Some(TRUE)
    /\ LastKind = "reset"

\* C2: every delivered motion sample that carries a vector leaves
\* peakG = max(peakG before, G(sample)), and peakG never decreases in a step
\* that is not a reset
C2_PeakObservesEverySample ==
    [][/\ (lastEvent'[1] = "motion"
             /\ lastEvent'[2].accelerationIncludingGravity # None)
          => sensors'.accelerometer.peakG =
                 Max(sensors.accelerometer.peakG, SampleG(lastEvent'[2]))
       /\ lastEvent'[1] # "reset"
          => sensors'.accelerometer.peakG >= sensors.accelerometer.peakG]_vars

\* C2 witness: a sample below the running peak has just been delivered and the
\* peak was kept
C2_Witness ==
    /\ LastKind = "motion"
    /\ lastEvent[2].accelerationIncludingGravity # None
    /\ sensors.accelerometer.totalG > 0
    /\ sensors.accelerometer.peakG > sensors.accelerometer.totalG

\* C3: the reset action sets peakG to 0 and leaves every other field of the
\* snapshot as it was
C3_ResetClearsOnlyPeak ==
    [][lastEvent'[1] = "reset" =>
          /\ sensors'.accelerometer.peakG = 0
          /\ sensors'.accelerometer.totalG = sensors.accelerometer.totalG
          /\ sensors'.accelerometer.x = sensors.accelerometer.x
          /\ sensors'.accelerometer.y = sensors.accelerometer.y
          /\ sensors'.accelerometer.z = sensors.accelerometer.z
          /\ sensors'.gps = sensors.gps
          /\ sensors'.magnetometer = sensors.magnetometer
          /\ sensors'.barometer = sensors.barometer
          /\ sensors'.device = sensors.device
          /\ sensors'.available = sensors.available]_vars

\* C3 witness: a reset has just been applied while the current G is 1.1 and
\* the other channels hold readings
C3_Witness ==
    /\ LastKind = "reset"
    /\ sensors.accelerometer.peakG = 0
    /\ sensors.accelerometer.totalG = TotalG(0, -1079, 0)
    /\ sensors.magnetometer.heading = 270
    /\ sensors.gps.altitude = Some(110)
    /\ AllAvailable

\* C4 (as claimed): a reading that arrives less than the throttle interval
\* after the last commit of its channel does not change the displayed values
\* of that channel, so two consecutive commits are at least the interval apart
C4_ThrottleSeparatesCommits ==
    [][\A ch \in Channels :
          (lastCommit[ch] # None /\ Displayed(sensors', ch) # Displayed(sensors, ch))
          => now' - lastCommit[ch][1] >= ThrottleInterval]_vars

\* C5: a motion event without the gravity-inclusive vector leaves the whole
\* snapshot as it was
C5_MalformedMotionDropped ==
    [][(lastEvent'[1] = "motion"
          /\ lastEvent'[2].accelerationIncludingGravity = None)
       => sensors' = sensors]_vars

\* C5 witness: such an event has just been delivered to a subscribed listener
\* and the motion channel is still unavailable
C5_Witness ==
    /\ LastKind = "motion"
    /\ lastEvent[2].accelerationIncludingGravity = None
    /\ motionListeners > 0
    /\ ~sensors.available.motion
    /\ sensors.available.gps

\* C6 (as claimed): the displayed heading is the GPS heading, with source
\* "GPS true north", when the ground speed exceeds 3 km/h and a GPS heading is
\* present, and the compass heading with source "magnetic" otherwise
C6_HeadingFusion ==
    IF SpeedKmh10(sensors) > 30 /\ sensors.gps.heading # None
    THEN /\ DisplayedHeading(sensors) = sensors.gps.heading[1]
         /\ DisplayedHeadingSource(sensors) = "GPS true north"
    ELSE /\ DisplayedHeading(sensors) = sensors.magnetometer.heading
         /\ DisplayedHeadingSource(sensors) = "magnetic"

\* C7 (as claimed): a fix committed at least the climb interval after the
\* previous one leaves verticalSpeed = (altitude_now - altitude_prev) /
\* (t_now - t_prev), in metres per second
C7_ClimbRate ==
    [][(/\ lastEvent'[1] = "gps"
        /\ lastCommit["gps"] # None
        /\ now' - lastCommit["gps"][1] >= ClimbInterval)
       => sensors'.barometer[1].verticalSpeed * (now' - lastCommit["gps"][1])
              = (sensors'.gps.altitude[1] - sensors.gps.altitude[1]) * 1000]_vars

\* C8 (as claimed): getCompassDirection(h) = getCompassDirection(h + 360) for
\* every h, negative ones included, and the result is one of the eight labels
C8_CompassPeriodic ==
    compassLabel # "unset" =>
        /\ compassLabel = getCompassDirection(compassArg + 360)
        /\ compassLabel \in {dirs[i] : i \in 1 .. Len(dirs)}

\* C9: where requestPermission exists, the motion and orientation listeners
\* are subscribed, and readings of these channels committed, only after a
\* permission request has been granted
C9_PermissionGate ==
    platform = "gated" =>
        /\ (orientationListeners > 0 \/ motionListeners > 0)
               => "granted" \in decisions
        /\ (sensors.available.motion \/ sensors.available.orientation)
               => "granted" \in decisions

\* C9 witness: on such a platform a request was denied, a later one granted,
\* the listeners are subscribed and a motion reading is committed
C9_Witness ==
    /\ platform = "gated"
    /\ decisions = {"denied", "granted"}
    /\ motionListeners > 0
    /\ orientationListeners > 0
    /\ sensors.available.motion

\* C10 (as claimed): after the teardown no subscription is active, whatever
\* watch id the platform returned
C10_TeardownReleasesAll ==
    ~mounted =>
        /\ orientationListeners = 0
        /\ motionListeners = 0
        /\ ~timerActive
        /\ activeWatches = {}

\* C11 (as claimed): an orientation event that carries neither a native compass
\* heading nor a rotation angle stores heading 0 and does not set the
\* orientation availability flag
C11_EmptyOrientationUnavailable ==
    [][(/\ lastEvent'[1] = "orientation"
        /\ lastEvent'[2].webkitCompassHeading = None
        /\ lastEvent'[2].alpha = None)
       => /\ sensors'.magnetometer.heading = 0
          /\ sensors'.available.orientation = sensors.available.orientation]_vars

\* C12 (as claimed): a native compass heading that is present, 0 included, is
\* stored whatever rotation angle comes with it; without one, a rotation
\* angle a that is present stores (360 - a) mod 360
C12_HeadingNormalised ==
    [][lastEvent'[1] = "orientation" =>
          LET e == lastEvent'[2] IN
          /\ e.webkitCompassHeading # None
                 => sensors'.magnetometer.heading = e.webkitCompassHeading[1]
          /\ (e.webkitCompassHeading = None /\ e.alpha # None)
                 => sensors'.magnetometer.heading = (360 - e.alpha[1]) % 360]_vars

\* The permission state of the motion/orientation group as the component holds
\* it: granted once permissionGranted is set, denied once a request was refused
PermissionStateOf(granted, decided) ==
    IF granted THEN "granted"
    ELSE IF "denied" \in decided THEN "denied"
    ELSE "pending"

\* C13 (as claimed): once a permission request has resolved, granted or
\* denied, no later step changes the permission state, and a further
\* requestPermissions call leaves the subscriptions as they were
C13_PermissionDecidedOnce ==
    [][(PermissionStateOf(permissionGranted, decisions) # "pending") =>
          /\ PermissionStateOf(permissionGranted', decisions')
                 = PermissionStateOf(permissionGranted, decisions)
          /\ lastEvent'[1] \in {"requestPermissions", "permissionSettled"}
                 => subscriptions' = subscriptions]_vars

\* C14 (as claimed): when the error boundary catches a render error, the
\* location watch and the motion/orientation listeners that were active stay
\* active
C14_RenderErrorKeepsProducers ==
    [][lastEvent'[1] = "renderError" =>
          /\ activeWatches' = activeWatches
          /\ orientationListeners' = orientationListeners
          /\ motionListeners' = motionListeners]_vars

\* C15 (as claimed): a pressure stored by the ISA altitude fallback carries an
\* "estimated" tag in the snapshot
C15_IsaPressureTagged ==
    (variant = 2 /\ sensors.available.gps) =>
        /\ "estimated" \in DOMAIN sensors.barometer[1]
        /\ sensors.barometer[1].estimated = TRUE

\* C16: calculatePressureFromAlt(0) is 1013.25 hPa within 0.01 hPa, and of two
\* altitudes in [0, 10000] m the higher one has the strictly lower pressure
C16_PressureDecreasing ==
    /\ calculatePressureFromAlt(0) - StandardPressure \in -1 .. 1
    /\ pressureOut # None =>
           /\ pressureOut[1][1] > pressureOut[1][2]
           /\ pressureAlt[1] = 0 => pressureOut[1][1] - StandardPressure \in -1 .. 1

C16_Witness ==
    /\ pressureOut # None
    /\ pressureAlt = <<0, 1>>
    /\ pressureOut[1][1] = StandardPressure
    /\ pressureOut[1][2] < StandardPressure
\* In t, every field of s outside subtree sub and flag ch is as it was
OnlyWrites(s, t, sub, ch) ==
    /\ \A f \in DOMAIN s \ {sub, "available"} : t[f] = s[f]
    /\ \A c \in Channels \ {ch} : t.available[c] = s.available[c]

\* C17 (as claimed): handleMotion changes only accelerometer and
\* available.motion, handleOrientation only magnetometer and
\* available.orientation, handleGPS only gps and available.gps
C17_SingleWriter ==
    [][/\ lastEvent'[1] = "motion" => OnlyWrites(sensors, sensors', "accelerometer", "motion")
       /\ lastEvent'[1] = "orientation" =>
              OnlyWrites(sensors, sensors', "magnetometer", "orientation")
       /\ lastEvent'[1] = "gps" => OnlyWrites(sensors, sensors', "gps", "gps")]_vars
\* C18: the location error callback leaves the whole snapshot and the position
\* watch as they were, the watch still active, and a fix that follows an error
\* is committed like any other
C18_GpsErrorTransient ==
    [][/\ lastEvent'[1] = "gpsError" =>
              /\ sensors' = sensors
              /\ watchId' = watchId
              /\ activeWatches' = activeWatches
              /\ activeWatches' # {}
       /\ (lastEvent[1] = "gpsError" /\ lastEvent'[1] = "gps" /\ mounted) =>
              /\ sensors'.available.gps
              /\ sensors'.gps.latitude = lastEvent'[2].latitude
              /\ sensors'.gps.longitude = lastEvent'[2].longitude
              /\ sensors'.gps.heading = lastEvent'[2].heading
              /\ lastCommit'["gps"] # None]_vars

C18_Witness ==
    /\ lastEvent[1] = "gpsError"
    /\ mounted
    /\ sensors.available.gps
    /\ sensors.gps.latitude # None
    /\ activeWatches # {}
\* C19: where geolocation is supported every run of the effect, the first one
\* included, starts a position watch whatever the permission state, and a fix
\* delivered to the mounted component is committed whatever the permission state
C19_LocationUngated ==
    [][/\ (lastEvent'[1] = "effect" /\ geolocation) =>
              /\ watchId' # None
              /\ watchId'[1] \in activeWatches'
       /\ (lastEvent'[1] = "gps" /\ mounted) =>
              /\ sensors'.available.gps
              /\ sensors'.gps.latitude = lastEvent'[2].latitude
              /\ lastCommit'["gps"] # None]_vars

C19_Witness ==
    /\ platform = "gated"
    /\ ~permissionGranted
    /\ "denied" \in decisions
    /\ mounted
    /\ lastEvent[1] = "gps"
    /\ sensors.available.gps
    /\ sensors.gps.latitude # None
\* C20: the gps and the motion flag are true exactly when a reading of that
\* channel has been committed before; no flag is true at session start, and a
\* GPS error, a motion event without vector, a reset or a permission request
\* leaves a flag false that had no commit
C20_FlagIffCommitted ==
    /\ \A ch \in {"gps", "motion"} : sensors.available[ch] <=> lastCommit[ch] # None
    /\ LastKind = "init" => \A ch \in Channels : ~sensors.available[ch]

C20_Witness ==
    /\ LastKind = "gpsError"
    /\ ~sensors.available.gps
    /\ lastCommit["gps"] = None
    /\ sensors.available.motion
    /\ lastCommit["motion"] # None
    /\ mounted
\* C21 (as claimed): after a committed location fix the stored altitude is the
\* altitude of the fix, or 0 when the fix has none, the stored speed is the
\* speed of the fix, or 0 when it has none, and neither is null once a fix has
\* been committed
C21_FixDefaults ==
    /\ (mounted /\ LastKind = "gps") =>
           /\ sensors.gps.altitude = Some(OrZero(lastEvent[2].altitude))
           /\ sensors.gps.speed = Some(OrZero(lastEvent[2].speed))
    /\ sensors.available.gps =>
           /\ sensors.gps.altitude # None
           /\ sensors.gps.speed # None
\* The subtrees of the three channels other than sub, and the flags other than
\* that of ch, are in t as they are in s
KeepsOtherChannels(s, t, sub, ch) ==
    /\ \A f \in {"gps", "accelerometer", "magnetometer"} \ {sub} : t[f] = s[f]
    /\ \A c \in Channels \ {ch} : t.available[c] = s.available[c]

\* C22: every callback delivered to the mounted component, in whatever order,
\* stores the reading of its event in its own subtree on top of the snapshot
\* the previous one produced: the subtrees and flags of the other channels are
\* carried over, and a reset carries over everything but peakG
C22_NoLostUpdate ==
    [][mounted =>
          /\ lastEvent'[1] = "motion" =>
                 /\ KeepsOtherChannels(sensors, sensors', "accelerometer", "motion")
                 /\ lastEvent'[2].accelerationIncludingGravity # None =>
                        /\ sensors'.accelerometer.totalG = SampleG(lastEvent'[2])
                        /\ sensors'.accelerometer.peakG >= sensors.accelerometer.peakG
                        /\ sensors'.available.motion
          /\ lastEvent'[1] = "orientation" =>
                 /\ KeepsOtherChannels(sensors, sensors', "magnetometer", "orientation")
                 /\ sensors'.magnetometer.accuracy =
                        OrZero(lastEvent'[2].webkitCompassAccuracy)
                 /\ sensors'.available.orientation
          /\ lastEvent'[1] = "gps" =>
                 /\ KeepsOtherChannels(sensors, sensors', "gps", "gps")
                 /\ sensors'.gps.latitude = lastEvent'[2].latitude
                 /\ sensors'.gps.heading = lastEvent'[2].heading
                 /\ sensors'.available.gps
          /\ lastEvent'[1] = "reset" =>
                 /\ KeepsOtherChannels(sensors, sensors', "accelerometer", "motion")
                 /\ sensors'.available = sensors.available
                 /\ sensors'.accelerometer.totalG = sensors.accelerometer.totalG]_vars

C22_Witness ==
    /\ mounted
    /\ LastKind = "motion"
    /\ lastEvent[2].accelerationIncludingGravity # None
    /\ sensors.available.gps
    /\ sensors.available.orientation
    /\ sensors.gps.latitude # None
    /\ sensors.magnetometer.accuracy = 10
    /\ sensors.accelerometer.totalG = SampleG(lastEvent[2])
\* C23 (as claimed): at any time at most one position watch and at most one
\* listener of each event type are active
C23_SingleSubscription ==
    /\ Cardinality(activeWatches) <= 1
    /\ orientationListeners <= 1
    /\ motionListeners <= 1
\* C24: in the variant with derived metrics barometer.pressureHPa is
\* calculatePressureFromAlt(gps.altitude) in every reachable state, and only a
\* position fix changes the altitude or the pressure
C24_PressureFollowsAltitude ==
    /\ [](variant = 2 =>
             sensors.barometer[1].pressureHPa =
                 calculatePressureFromAlt(sensors.gps.altitude[1]))
    /\ [][(variant = 2 /\ lastEvent'[1] # "gps") =>
              /\ sensors'.gps.altitude = sensors.gps.altitude
              /\ sensors'.barometer[1].pressureHPa = sensors.barometer[1].pressureHPa]_vars

C24_Witness ==
    /\ variant = 2
    /\ mounted
    /\ LastKind = "reset"
    /\ sensors.available.motion
    /\ sensors.available.orientation
    /\ sensors.gps.altitude = Some(100)
    /\ sensors.barometer[1].pressureHPa = calculatePressureFromAlt(100)
    /\ sensors.barometer[1].pressureHPa < StandardPressure
\* peakG is below totalG
PeakBelowTotal(s) == s.accelerometer.peakG < s.accelerometer.totalG

\* C25: right after a committed motion sample peakG >= totalG; a state with
\* peakG < totalG is entered by a reset only, and lasts only as long as no
\* motion sample is committed
C25_PeakCoversTotal ==
    /\ []((mounted /\ LastKind = "motion"
            /\ lastEvent[2].accelerationIncludingGravity # None)
               => ~PeakBelowTotal(sensors))
    /\ [](LastKind = "init" => ~PeakBelowTotal(sensors))
    /\ [][PeakBelowTotal(sensors') =>
              \/ lastEvent'[1] = "reset"
              \/ /\ PeakBelowTotal(sensors)
                 /\ sensors'.accelerometer = sensors.accelerometer
                 /\ ~(/\ mounted
                      /\ lastEvent'[1] = "motion"
                      /\ lastEvent'[2].accelerationIncludingGravity # None)]_vars

C25_Witness ==
    /\ mounted
    /\ LastKind = "motion"
    /\ lastEvent[2].accelerationIncludingGravity # None
    /\ sensors.accelerometer.totalG > 0
    /\ sensors.accelerometer.peakG > sensors.accelerometer.totalG
\* C26: with native headings and rotation angles in [0, 360) the stored
\* magnetometer heading is in [0, 360] and getCompassDirection of it is one of
\* the eight labels
C26_HeadingInRange ==
    /\ sensors.magnetometer.heading \in 0 .. 360
    /\ getCompassDirection(sensors.magnetometer.heading)
           \in {dirs[i] : i \in 1 .. Len(dirs)}

C26_Witness ==
    /\ mounted
    /\ LastKind = "orientation"
    /\ lastEvent[2].webkitCompassHeading = None
    /\ lastEvent[2].alpha = Some(1)
    /\ sensors.magnetometer.heading = 359
    /\ getCompassDirection(sensors.magnetometer.heading) = "N"
=============================================================================
